---- MODULE Spec2Model ----
(***************************************************************************)
(* Model of the clipboard pipeline of clipman (src-tauri/src/lib.rs):      *)
(* the watcher thread that polls the clipboard and deduplicates against   *)
(* last_clipboard, the bounded crossbeam channel, the async task that     *)
(* receives entries, spawns one blocking write per entry and emits        *)
(* "clipboard-update", the write itself (insert_clipboard_entry), the     *)
(* delete and history commands on the clipboard_history table, and the    *)
(* setup hook that emits "clipboard-history" before it spawns the two.    *)
(*                                                                         *)
(* Clipboard contents are sequences of one-character strings, so that the *)
(* content-type heuristics of insert_clipboard_entry can be computed.     *)
(* Utc::now() is modelled as a clock that is strictly larger at every     *)
(* reading, so the text order of the RFC3339 timestamps is the order of   *)
(* the readings.                                                          *)
(***************************************************************************)
EXTENDS Integers, Sequences, FiniteSets, TLC

(* ------------------------------ bounds -------------------------------- *)

\* successful clipboard reads in a run of Spec and SpecSeq (watcher, channel,
\* task, writes and delete commands)
MaxSamples == 3
\* successful clipboard reads in a run of SpecPoll (watcher, channel and task)
MaxPollSamples == 6
\* successful clipboard reads in a run of SpecBurst (a clipboard that changes
\* before every read, so that the channel fills)
MaxBurst == 12
\* successful clipboard reads in a run of SpecStartup (setup from a table an
\* earlier run left, then watcher, channel and task)
MaxStartupSamples == 2
\* rows of the largest table an earlier run left, in SpecStartup
MaxStored == 22
\* "clipboard-history" emits that may fail in one setup, in SpecStartup
MaxEmitFailures == 1
\* largest explicit limit of a history command
MaxLimit == 3
\* successful clipboard reads in a run of SpecClassify (watcher, channel, task
\* and writes over contents that exercise the content-type rules)
MaxClassifySamples == 2

(* ----------------------------- contents ------------------------------- *)

EMPTY == <<>>
X == <<"x">>
Y == <<"y">>
J == <<"{", "\"", "a", "\"", ":", "1", "}">>

\* what clipboard.get_text() may return in SpecPoll
Contents == {EMPTY, X, Y}
\* what clipboard.get_text() may return in Spec and SpecSeq (the empty string
\* is special only to the watcher's first comparison, which SpecPoll covers)
StoreContents == {X, Y, J}
\* contents of the one row a previous run of the application may have left
SeedContents == {J}
\* what the clipboard alternates between in the burst specification
BurstContents == {X, Y}

\* contents that meet the content-type rules one by one and several at once
JsonArray == <<" ", "\n", "[", "1", "]">>
JsonLines == <<"{", "\n", "}">>
Url == <<"h", "t", "t", "p", ":", "/", "/", "a">>
UrlLines == <<"h", "t", "t", "p", "s", ":", "/", "/", "a", "\n", "b">>
SpaceUrl == <<" ", "h", "t", "t", "p", ":", "/", "/", "a">>
HalfUrl == <<"h", "t", "t", "p">>
Lines == <<"a", "\n", "b">>
BlankLines == <<"\n", "\n">>
OneLine == <<"a", "\n">>

\* what clipboard.get_text() may return in SpecClassify
ClassifyContents ==
    {EMPTY, X, J, JsonArray, JsonLines, Url, UrlLines, SpaceUrl, HalfUrl, Lines,
     BlankLines, OneLine}

NONE == <<"<none>">>

(* --------------------------- pure helpers ----------------------------- *)

WhiteSpace == {" ", "\t", "\n", "\r"}

RECURSIVE TrimStart(_)
TrimStart(s) ==
    IF s # <<>> /\ Head(s) \in WhiteSpace THEN TrimStart(Tail(s)) ELSE s

StartsWith(s, p) == Len(s) >= Len(p) /\ SubSeq(s, 1, Len(p)) = p

\* str::lines().count(): lines end at "\n"; a final line without "\n" counts,
\* an empty remainder after the last "\n" does not
LinesCount(s) ==
    Cardinality({i \in 1..Len(s) : s[i] = "\n"})
      + (IF s # <<>> /\ s[Len(s)] # "\n" THEN 1 ELSE 0)

HttpPrefix == <<"h", "t", "t", "p", ":", "/", "/">>
HttpsPrefix == <<"h", "t", "t", "p", "s", ":", "/", "/">>

\* the same tests with the line count tried first
ClassifyLinesFirst(content) ==
    IF LinesCount(content) > 1
      THEN "multiline"
    ELSE IF StartsWith(TrimStart(content), <<"{">>) \/ StartsWith(TrimStart(content), <<"[">>)
      THEN "json"
    ELSE IF StartsWith(content, HttpPrefix) \/ StartsWith(content, HttpsPrefix)
      THEN "url"
    ELSE "text"

Classify(content) ==
    IF StartsWith(TrimStart(content), <<"{">>) \/ StartsWith(TrimStart(content), <<"[">>)
      THEN "json"
    ELSE IF StartsWith(content, HttpPrefix) \/ StartsWith(content, HttpsPrefix)
      THEN "url"
    ELSE IF LinesCount(content) > 1
      THEN "multiline"
    ELSE "text"

(* ------------------------------- state -------------------------------- *)

VARIABLES
    last,        \* last_clipboard: the content the watcher saw last
    lockHeld,    \* the watcher holds the last_clipboard mutex
    pollerPc,    \* watcher thread: "boot" (not spawned yet), "off" (setup failed),
                 \* "start", "tick", "send" or "dead"
    cur,         \* the content the watcher is sending (pollerPc = "send")
    relay,       \* the bounded channel's queue
    rxAlive,     \* the receiver rx has not been dropped
    workerPc,    \* async task: "boot" (not spawned yet), "off" (setup failed),
                 \* "recv", "emit", "exit" (loop ended) or "dead" (panic)
    msg,         \* the entry the async task holds (workerPc = "emit")
    units,       \* the spawned blocking writes, in spawn order
    rows,        \* table clipboard_history, in insertion order
    seqno,       \* sqlite_sequence: the largest id ever assigned
    clock,       \* the next reading of Utc::now()
    samples,     \* history: the successful clipboard reads
    accepted,    \* history: the contents the watcher passed to tx.send
    received,    \* history: the entries rx.recv() returned
    events,      \* history: the "clipboard-update" events emitted by the task
    readFailed,  \* history: the watcher's latest clipboard read failed
    joined,      \* history: a delete by id removed a row between two rows of equal content
    history,     \* history: the entries of the "clipboard-history" events emitted
    historyFaults, \* history: the errors setup ignored while it emitted them
    reply        \* history: the limit and the response of the latest history command

vars == <<last, lockHeld, pollerPc, cur, relay, rxAlive, workerPc, msg, units, rows,
          seqno, clock, samples, accepted, received, events, readFailed, joined,
          history, historyFaults, reply>>

pollerVars == <<last, lockHeld, pollerPc, cur, samples, accepted, readFailed>>
workerVars == <<workerPc, msg, received, events>>
startVars == <<history, historyFaults, reply>>
storeVars == <<rows, seqno, clock, joined, history, historyFaults, reply>>

\* bounded::<String>(10)
Capacity == 10

Row(id, content, ts, ctype) ==
    [id |-> id, content |-> content, ts |-> ts, ctype |-> ctype]

Unit(content) ==
    [content |-> content, pc |-> "start", ts |-> 0, res |-> "none"]

SeedRows ==
    {<<>>} \cup {<<Row(1, c, 0, Classify(c))>> : c \in SeedContents}

NoReply == [limit |-> <<>>, ok |-> FALSE, entries |-> <<>>]

\* the application as run() finds it: the table as an earlier run left it,
\* nothing spawned or emitted yet
InitWith(tables) ==
    /\ last = EMPTY
    /\ lockHeld = FALSE
    /\ pollerPc = "boot"
    /\ cur = EMPTY
    /\ relay = <<>>
    /\ rxAlive = TRUE
    /\ workerPc = "boot"
    /\ msg = EMPTY
    /\ units = <<>>
    /\ rows \in tables
    /\ seqno = Len(rows)
    /\ clock = 1
    /\ samples = <<>>
    /\ accepted = <<>>
    /\ received = <<>>
    /\ events = <<>>
    /\ readFailed = FALSE
    /\ joined = FALSE
    /\ history = <<>>
    /\ historyFaults = 0
    /\ reply = NoReply

Init == InitWith(SeedRows)

\* a table of n rows written by earlier runs (timestamps up to 0), the
\* contents x, y, json in turn; with `crossed` the second and the third row
\* were stamped in the opposite order of their inserts, as two overlapping
\* writes can leave them
Stored(n, crossed) ==
    [i \in 1..n |->
        LET c == IF i % 3 = 1 THEN X ELSE IF i % 3 = 2 THEN Y ELSE J
            k == IF crossed /\ i = 2 THEN 3 ELSE IF crossed /\ i = 3 THEN 2 ELSE i
        IN Row(i, c, k - n, Classify(c))]

\* the tables setup may find in SpecStartup: empty, one row, exactly as many
\* rows as the history read asks for, and more than that
StartupTables ==
    {Stored(n, crossed) : n \in {0, 1, 20, MaxStored}, crossed \in BOOLEAN}

InitStartup == InitWith(StartupTables)

(* --------------------------- storage views ---------------------------- *)

RowSet(rs) == {rs[i] : i \in DOMAIN rs}

\* the row "ORDER BY timestamp DESC LIMIT 1" selects
Newest(rs) == CHOOSE r \in RowSet(rs) : \A q \in RowSet(rs) : q.ts <= r.ts

\* the row an ascending order would select
Oldest(rs) == CHOOSE r \in RowSet(rs) : \A q \in RowSet(rs) : q.ts >= r.ts

OldestContent(rs) == IF rs = <<>> THEN NONE ELSE Oldest(rs).content

\* query_row(...).optional(): the content of the newest row, if there is one
LastContent(rs) == IF rs = <<>> THEN NONE ELSE Newest(rs).content

RECURSIVE ByRecencySet(_)
ByRecencySet(S) ==
    IF S = {} THEN <<>>
    ELSE LET r == CHOOSE r \in S : \A q \in S : q.ts <= r.ts
         IN <<r>> \o ByRecencySet(S \ {r})

\* the table in "ORDER BY timestamp DESC" order
ByRecency(rs) == ByRecencySet(RowSet(rs))

\* DELETE with "WHERE id <= ?1"
WithoutIdsUpTo(rs, id) == SelectSeq(rs, LAMBDA r : r.id > id)

\* DELETE FROM clipboard_history WHERE id = ?1
WithoutId(rs, id) == SelectSeq(rs, LAMBDA r : r.id # id)

\* the first rows of the table in ascending-timestamp order
ListOldest(rs, limit) ==
    LET o == ByRecency(rs)
    IN [i \in 1..(IF limit < Len(o) THEN limit ELSE Len(o)) |-> o[Len(o) + 1 - i]]

\* get_clipboard_history: "ORDER BY timestamp DESC LIMIT ?1"
ListRecent(rs, limit) ==
    LET o == ByRecency(rs)
    IN SubSeq(o, 1, IF limit < Len(o) THEN limit ELSE Len(o))

\* the limit of the history command when the UI gives none: unwrap_or(20)
DefaultLimit == 20

\* limit: Option<usize> as a sequence: None is <<>>, Some(n) is <<n>>
NoLimit == <<>>

\* the command get_clipboard_history_entries(limit: Option<usize>)
GetClipboardHistoryEntries(rs, limit) ==
    ListRecent(rs, IF limit = NoLimit THEN DefaultLimit ELSE limit[1])

\* a rowid table without AUTOINCREMENT: one more than the largest id in the table
NextRowid(rs, seq) ==
    IF rs = <<>> THEN 1
    ELSE 1 + (CHOOSE k \in {rs[i].id : i \in DOMAIN rs} :
                 \A i \in DOMAIN rs : rs[i].id <= k)

\* INTEGER PRIMARY KEY AUTOINCREMENT: one more than the largest id ever assigned
NextId(rs, seq) == seq + 1

NeverDuplicate(lastContent, content) == FALSE

\* "Skip duplicate": the last content is there and equals the new one
IsDuplicate(lastContent, content) == lastContent # NONE /\ lastContent = content

\* a write between its read of the last content and the end of its INSERT
InWindow(u) == units[u].pc \in {"checked", "stamped"}

\* a write that has returned: only its content and its outcome remain
Finished(unit, res) ==
    [content |-> unit.content, pc |-> "done", ts |-> 0, res |-> res]

(* ------------------------------ channel ------------------------------ *)

EnqueueFront(q, m) == <<m>> \o q

\* tx.send on a channel with room: the entry goes to the back of the queue
Enqueue(q, m) == Append(q, m)

\* rx.recv() on a non-empty channel returns the entry at the front
Front(q) == Head(q)

(* ------------------------------- setup -------------------------------- *)

\* the limit of the history read in setup: get_clipboard_history(&handle, 20)
StartupLimit == 20

\* the entries whose emit returned Ok, the last one first
EmittedBackwards(entries, lost) ==
    LET F[i \in 0..Len(entries)] ==
          IF i = 0 THEN <<>>
          ELSE IF i \in lost THEN F[i - 1]
          ELSE <<entries[i]>> \o F[i - 1]
    IN F[Len(entries)]

\* the entries whose emit returned Ok, in order (let _ = handle.emit(..))
Emitted(entries, lost) ==
    LET F[i \in 0..Len(entries)] ==
          IF i = 0 THEN <<>>
          ELSE IF i \in lost THEN F[i - 1]
          ELSE Append(F[i - 1], entries[i])
    IN F[Len(entries)]

\* the setup hook: init_database (an Err ends setup with an error and nothing
\* is spawned), then one "clipboard-history" emit per entry of the history
\* read (an Err of the read skips them all, an Err of an emit is ignored),
\* then the channel, last_clipboard, the watcher thread and the async task
Setup(dbOk, readOk, lost) ==
    /\ pollerPc = "boot"
    /\ lost \subseteq DOMAIN ListRecent(rows, StartupLimit)
    /\ IF ~dbOk
         THEN /\ pollerPc' = "off"
              /\ workerPc' = "off"
              /\ UNCHANGED <<history, historyFaults>>
       ELSE IF ~readOk
         THEN /\ pollerPc' = "start"
              /\ workerPc' = "recv"
              /\ history' = <<>>
              /\ historyFaults' = 1
       ELSE /\ pollerPc' = "start"
            /\ workerPc' = "recv"
            /\ history' = Emitted(ListRecent(rows, StartupLimit), lost)
            /\ historyFaults' = Cardinality(lost)
    /\ UNCHANGED <<last, lockHeld, cur, samples, accepted, readFailed>>
    /\ UNCHANGED <<msg, received, events>>
    /\ UNCHANGED <<rows, seqno, clock, joined, relay, rxAlive, units, reply>>

\* a setup in which every call returns Ok
SetupOk == Setup(TRUE, TRUE, {})

(* --------------------------- watcher thread --------------------------- *)

\* Clipboard::new().unwrap(): a failure panics the thread before its loop
PollerStart(ok) ==
    /\ pollerPc = "start"
    /\ pollerPc' = IF ok THEN "tick" ELSE "dead"
    /\ UNCHANGED <<last, lockHeld, cur, samples, accepted, readFailed, relay, rxAlive, units>>
    /\ UNCHANGED workerVars
    /\ UNCHANGED storeVars

ObserveAlways(candidate) == TRUE

\* a comparison with the empty string instead of last_clipboard
ObserveNonEmpty(candidate) == candidate # EMPTY

\* the comparison and store under the last_clipboard lock
Observe(candidate) == last # candidate

\* one tick whose get_text() returns Ok(c): the mutex is locked for the
\* comparison; an unchanged content ends the block (the guard is dropped) and
\* goes to the sleep, a changed one is stored and handed to tx.send with the
\* guard `last` still alive
PollOk(c, max) ==
    /\ pollerPc = "tick"
    /\ Len(samples) < max
    /\ samples' = Append(samples, c)
    /\ IF Observe(c)
         THEN /\ last' = c
              /\ lockHeld' = TRUE
              /\ cur' = c
              /\ accepted' = Append(accepted, c)
              /\ pollerPc' = "send"
         ELSE UNCHANGED <<last, lockHeld, cur, accepted, pollerPc>>
    /\ readFailed' = FALSE
    /\ UNCHANGED <<relay, rxAlive, units>>
    /\ UNCHANGED workerVars
    /\ UNCHANGED storeVars

\* a failed read taken for an empty clipboard
PollFailClears ==
    /\ pollerPc = "tick"
    /\ readFailed' = TRUE
    /\ last' = EMPTY
    /\ UNCHANGED <<lockHeld, cur, samples, accepted, pollerPc, relay, rxAlive, units>>
    /\ UNCHANGED workerVars
    /\ UNCHANGED storeVars

\* one tick whose get_text() returns Err: nothing but the sleep
PollFail ==
    /\ pollerPc = "tick"
    /\ readFailed' = TRUE
    /\ UNCHANGED <<last, lockHeld, cur, samples, accepted, pollerPc, relay, rxAlive, units>>
    /\ UNCHANGED workerVars
    /\ UNCHANGED storeVars

\* a send that takes the stored content back when the receiver is gone
SendUndoes ==
    /\ pollerPc = "send"
    /\ IF rxAlive
         THEN /\ Len(relay) < Capacity
              /\ relay' = Enqueue(relay, cur)
              /\ UNCHANGED last
         ELSE /\ last' = EMPTY
              /\ UNCHANGED relay
    /\ pollerPc' = "tick"
    /\ cur' = EMPTY
    /\ lockHeld' = FALSE
    /\ UNCHANGED <<samples, accepted, readFailed, rxAlive, units>>
    /\ UNCHANGED workerVars
    /\ UNCHANGED storeVars

\* let _ = tx.send(current): blocks while the channel is full; with the
\* receiver dropped it returns Err at once and the content is discarded.  The
\* guard `last` is dropped at the end of the block, after the send returned
Send ==
    /\ pollerPc = "send"
    /\ IF rxAlive
         THEN /\ Len(relay) < Capacity
              /\ relay' = Enqueue(relay, cur)
         ELSE UNCHANGED relay
    /\ pollerPc' = "tick"
    /\ cur' = EMPTY
    /\ lockHeld' = FALSE
    /\ UNCHANGED <<last, samples, accepted, readFailed, rxAlive, units>>
    /\ UNCHANGED workerVars
    /\ UNCHANGED storeVars

(* ----------------------------- async task ----------------------------- *)

\* rx.recv() returns Ok(entry); the write is spawned with spawn_blocking
WorkerRecv ==
    /\ workerPc = "recv"
    /\ relay # <<>>
    /\ msg' = Front(relay)
    /\ relay' = Tail(relay)
    /\ received' = Append(received, Front(relay))
    /\ units' = Append(units, Unit(Front(relay)))
    /\ workerPc' = "emit"
    /\ UNCHANGED <<events, rxAlive>>
    /\ UNCHANGED pollerVars
    /\ UNCHANGED storeVars

\* watcher_handle.emit("clipboard-update", entry).unwrap(), then the sleep:
\* an Err panics the task, which drops rx and with it the queued entries
WorkerEmit(ok) ==
    /\ workerPc = "emit"
    /\ IF ok
         THEN /\ events' = Append(events, msg)
              /\ workerPc' = "recv"
              /\ UNCHANGED <<relay, rxAlive>>
         ELSE /\ workerPc' = "dead"
              /\ rxAlive' = FALSE
              /\ relay' = <<>>
              /\ UNCHANGED events
    /\ msg' = EMPTY
    /\ UNCHANGED <<received, units>>
    /\ UNCHANGED pollerVars
    /\ UNCHANGED storeVars

\* rx.recv() returns Err: the channel is empty and tx was dropped
WorkerExit ==
    /\ workerPc = "recv"
    /\ relay = <<>>
    /\ pollerPc = "dead"
    /\ workerPc' = "exit"
    /\ rxAlive' = FALSE
    /\ UNCHANGED <<msg, received, events, relay, units>>
    /\ UNCHANGED pollerVars
    /\ UNCHANGED storeVars

(* ----------------------- insert_clipboard_entry ----------------------- *)

\* open the database, read the last content and compare: a duplicate returns
\* Ok(()) at once, anything else goes on to the INSERT
UnitQuery(u, ok) ==
    /\ u \in DOMAIN units
    /\ units[u].pc = "start"
    /\ IF ~ok
         THEN units' = [units EXCEPT ![u].pc = "done", ![u].res = "failed"]
       ELSE IF IsDuplicate(LastContent(rows), units[u].content)
         THEN units' = [units EXCEPT ![u].pc = "done", ![u].res = "skipped"]
       ELSE units' = [units EXCEPT ![u].pc = "checked"]
    /\ UNCHANGED <<rows, seqno, clock, joined, relay, rxAlive>>
    /\ UNCHANGED startVars
    /\ UNCHANGED pollerVars
    /\ UNCHANGED workerVars

\* Utc::now().to_rfc3339()
UnitStamp(u) ==
    /\ u \in DOMAIN units
    /\ units[u].pc = "checked"
    /\ units' = [units EXCEPT ![u].pc = "stamped", ![u].ts = clock]
    /\ clock' = clock + 1
    /\ UNCHANGED <<rows, seqno, joined, relay, rxAlive>>
    /\ UNCHANGED startVars
    /\ UNCHANGED pollerVars
    /\ UNCHANGED workerVars

\* the INSERT; a failure is printed by the caller and nothing is stored
UnitInsert(u, ok) ==
    /\ u \in DOMAIN units
    /\ units[u].pc = "stamped"
    /\ IF ok
         THEN /\ rows' = Append(rows, Row(NextId(rows, seqno), units[u].content,
                                          units[u].ts, Classify(units[u].content)))
              /\ seqno' = NextId(rows, seqno)
              /\ units' = [units EXCEPT ![u] = Finished(units[u], "inserted")]
         ELSE /\ units' = [units EXCEPT ![u] = Finished(units[u], "failed")]
              /\ UNCHANGED <<rows, seqno>>
    /\ UNCHANGED <<clock, joined, relay, rxAlive>>
    /\ UNCHANGED startVars
    /\ UNCHANGED pollerVars
    /\ UNCHANGED workerVars

(* --------------------------- delete commands -------------------------- *)

\* the row with this id has a newer and an older neighbour of equal content
Joins(rs, id) ==
    LET o == ByRecency(rs)
    IN \E i \in 2..(Len(o) - 1) :
          /\ o[i].id = id
          /\ o[i - 1].content = o[i + 1].content

\* the command delete_clipboard_entry: success is false exactly when the
\* database could not be opened or the DELETE failed, and then nothing changed
DeleteClipboardEntry(rs, id, dbOk) ==
    [success |-> dbOk, rows |-> IF dbOk THEN WithoutId(rs, id) ELSE rs]

\* the command clear_all_clipboard_entries
ClearAllClipboardEntries(rs, dbOk) ==
    [success |-> dbOk, rows |-> IF dbOk THEN <<>> ELSE rs]

\* setup has returned Ok: the application runs and its window can invoke commands
Running == pollerPc \notin {"boot", "off"}

\* the UI invokes delete_clipboard_entry
DeleteById(id, dbOk) ==
    /\ Running
    /\ rows' = DeleteClipboardEntry(rows, id, dbOk).rows
    /\ joined' = (joined \/ (dbOk /\ Joins(rows, id)))
    /\ UNCHANGED <<seqno, clock, relay, rxAlive, units>>
    /\ UNCHANGED startVars
    /\ UNCHANGED pollerVars
    /\ UNCHANGED workerVars

\* the UI invokes clear_all_clipboard_entries
DeleteAll(dbOk) ==
    /\ Running
    /\ rows' = ClearAllClipboardEntries(rows, dbOk).rows
    /\ UNCHANGED <<seqno, clock, joined, relay, rxAlive, units>>
    /\ UNCHANGED startVars
    /\ UNCHANGED pollerVars
    /\ UNCHANGED workerVars

(* --------------------------- history command -------------------------- *)

\* the UI invokes get_clipboard_history_entries: Ok(entries), or Err(message)
\* when the database could not be read
GetHistory(limit, dbOk) ==
    /\ Running
    /\ reply' = [limit |-> limit, ok |-> dbOk,
                 entries |-> IF dbOk THEN GetClipboardHistoryEntries(rows, limit)
                             ELSE <<>>]
    /\ UNCHANGED <<rows, seqno, clock, joined, history, historyFaults>>
    /\ UNCHANGED <<relay, rxAlive, units>>
    /\ UNCHANGED pollerVars
    /\ UNCHANGED workerVars

(* --------------------------- specifications --------------------------- *)

\* the whole pipeline with every read of the clipboard succeeding (a failed
\* read changes nothing but readFailed; SpecPoll has it), a setup without
\* errors (SpecStartup has them) and delete commands that find the database
\* (a failed one changes nothing; SpecSeq has it)
Next ==
    \/ SetupOk
    \/ \E ok \in BOOLEAN : PollerStart(ok)
    \/ \E c \in StoreContents : PollOk(c, MaxSamples)
    \/ Send
    \/ WorkerRecv
    \/ \E ok \in BOOLEAN : WorkerEmit(ok)
    \/ WorkerExit
    \/ \E u \in DOMAIN units, ok \in BOOLEAN : UnitQuery(u, ok)
    \/ \E u \in DOMAIN units : UnitStamp(u)
    \/ \E u \in DOMAIN units, ok \in BOOLEAN : UnitInsert(u, ok)
    \/ \E id \in 1..(seqno + 1) : DeleteById(id, TRUE)
    \/ DeleteAll(TRUE)

Spec == Init /\ [][Next]_vars

\* no write is between its read and its INSERT
StoreIdle == \A u \in DOMAIN units : ~InWindow(u)

\* sequential persistence: a write or a delete command starts only when no
\* write is between its read and its INSERT
NextSeq ==
    \/ SetupOk
    \/ \E ok \in BOOLEAN : PollerStart(ok)
    \/ \E c \in StoreContents : PollOk(c, MaxSamples)
    \/ Send
    \/ WorkerRecv
    \/ \E ok \in BOOLEAN : WorkerEmit(ok)
    \/ WorkerExit
    \/ \E u \in DOMAIN units, ok \in BOOLEAN : StoreIdle /\ UnitQuery(u, ok)
    \/ \E u \in DOMAIN units : UnitStamp(u)
    \/ \E u \in DOMAIN units, ok \in BOOLEAN : UnitInsert(u, ok)
    \/ \E id \in 1..(seqno + 1), dbOk \in BOOLEAN : StoreIdle /\ DeleteById(id, dbOk)
    \/ \E dbOk \in BOOLEAN : StoreIdle /\ DeleteAll(dbOk)

SpecSeq == Init /\ [][NextSeq]_vars

\* watcher, channel and task alone, over longer runs: the spawned writes do not
\* get to run and the UI issues no delete command
NextPoll ==
    \/ SetupOk
    \/ \E ok \in BOOLEAN : PollerStart(ok)
    \/ \E c \in Contents : PollOk(c, MaxPollSamples)
    \/ PollFail
    \/ Send
    \/ WorkerRecv
    \/ \E ok \in BOOLEAN : WorkerEmit(ok)
    \/ WorkerExit

SpecPoll == Init /\ [][NextPoll]_vars

\* a clipboard that shows a new content at every read, so that the watcher
\* can run ahead of the task by more than the channel holds; the spawned
\* writes do not get to run
PollChange(c) == Observe(c) /\ PollOk(c, MaxBurst)

NextBurst ==
    \/ SetupOk
    \/ PollerStart(TRUE)
    \/ \E c \in BurstContents : PollChange(c)
    \/ Send
    \/ WorkerRecv
    \/ \E ok \in BOOLEAN : WorkerEmit(ok)

SpecBurst == Init /\ [][NextBurst]_vars

\* the subsets of S with at most k elements
RECURSIVE SubsetsUpTo(_, _)
SubsetsUpTo(S, k) ==
    IF k = 0 THEN {{}}
    ELSE LET P == SubsetsUpTo(S, k - 1)
         IN P \cup {T \cup {x} : T \in P, x \in S}

\* setup with its errors over the tables of StartupTables, then watcher,
\* channel and task; the spawned writes do not get to run and the UI issues
\* no delete command, so the table stays as setup found it
NextStartup ==
    \/ /\ pollerPc = "boot"
       /\ \E dbOk, readOk \in BOOLEAN :
             \E lost \in SubsetsUpTo(DOMAIN ListRecent(rows, StartupLimit),
                                     MaxEmitFailures) :
                Setup(dbOk, readOk, lost)
    \/ PollerStart(TRUE)
    \/ \E c \in BurstContents : PollOk(c, MaxStartupSamples)
    \/ Send
    \/ WorkerRecv
    \/ \E ok \in BOOLEAN : WorkerEmit(ok)

SpecStartup == InitStartup /\ [][NextStartup]_vars

\* the limits the UI may give to the history command
Limits == {NoLimit} \cup {<<n>> : n \in 0..MaxLimit}

\* history commands over the tables of StartupTables, beside a watcher, a
\* channel and a task without errors
NextHistory ==
    \/ SetupOk
    \/ PollerStart(TRUE)
    \/ \E c \in BurstContents : PollOk(c, MaxStartupSamples)
    \/ Send
    \/ WorkerRecv
    \/ WorkerEmit(TRUE)
    \/ \E limit \in Limits, dbOk \in BOOLEAN : GetHistory(limit, dbOk)

SpecHistory == InitStartup /\ [][NextHistory]_vars

\* watcher, channel, task and writes over the contents of ClassifyContents,
\* without errors and without delete commands
NextClassify ==
    \/ SetupOk
    \/ PollerStart(TRUE)
    \/ \E c \in ClassifyContents : PollOk(c, MaxClassifySamples)
    \/ Send
    \/ WorkerRecv
    \/ WorkerEmit(TRUE)
    \/ \E u \in DOMAIN units : UnitQuery(u, TRUE)
    \/ \E u \in DOMAIN units : UnitStamp(u)
    \/ \E u \in DOMAIN units : UnitInsert(u, TRUE)

SpecClassify == Init /\ [][NextClassify]_vars

\* watcher, channel, task and the concurrently running writes, without errors
\* and without delete commands
NextWrites ==
    \/ SetupOk
    \/ PollerStart(TRUE)
    \/ \E c \in StoreContents : PollOk(c, MaxSamples)
    \/ Send
    \/ WorkerRecv
    \/ WorkerEmit(TRUE)
    \/ \E u \in DOMAIN units : UnitQuery(u, TRUE)
    \/ \E u \in DOMAIN units : UnitStamp(u)
    \/ \E u \in DOMAIN units : UnitInsert(u, TRUE)

SpecWrites == Init /\ [][NextWrites]_vars

\* the watcher thread and the async task are scheduled whenever they can run:
\* a send that has room completes, a receive of a queued entry returns, an
\* emit returns.  No fairness is assumed of the spawned writes.
PipelineFair ==
    /\ WF_vars(Send)
    /\ WF_vars(WorkerRecv)
    /\ WF_vars(\E ok \in BOOLEAN : WorkerEmit(ok))

FairPoll == SpecPoll /\ PipelineFair

FairBurst == SpecBurst /\ PipelineFair

(* ------------------------------ C1 .. C3 ------------------------------ *)

IsPrefix(s, t) == Len(s) <= Len(t) /\ SubSeq(t, 1, Len(s)) = s

LastOf(s, default) == IF s = <<>> THEN default ELSE s[Len(s)]

\* one element per maximal run of equal consecutive elements, in run order
RECURSIVE Runs(_)
Runs(s) ==
    IF Len(s) <= 1 THEN s
    ELSE IF s[1] = s[2] THEN Runs(Tail(s))
    ELSE <<s[1]>> \o Runs(Tail(s))

\* C1 as claimed: the changes handed to the channel are the maximal runs of the
\* successful samples, one change per run, in run order.
C1_ChangesAreRuns == accepted = Runs(samples)

\* C1 as amended: the changes handed to the channel are the maximal runs of the
\* successful samples, one per run and in run order, except that a leading run
\* of empty strings (equal to the initial last_clipboard) gives no change.
C1_ChangesAreRunsAfterEmpty == accepted = Tail(Runs(<<EMPTY>> \o samples))

\* the samples [x,x,x,y,y,x] have been read and gave the changes [x,y,x]
C1_Witness == samples = <<X, X, X, Y, Y, X>> /\ accepted = <<X, Y, X>>

\* C2: the channel never holds more than Capacity entries, and from a state in
\* which it holds Capacity entries the only step that changes it is a receive
\* of its front entry by the task; until then a watcher that is sending stays
\* in its send with the same content: nothing is dropped or overwritten.
C2_FullRelayBlocks ==
    [][/\ Len(relay') <= Capacity
       /\ (Len(relay) = Capacity =>
             /\ (relay' = relay
                 \/ (relay' = Tail(relay) /\ received' = Append(received, Head(relay))))
             /\ (pollerPc = "send" /\ relay' = relay =>
                    pollerPc' = "send" /\ cur' = cur))]_vars

\* the channel is full and the watcher is blocked in the send of one more change
C2_Witness == Len(relay) = Capacity /\ pollerPc = "send" /\ rxAlive

\* C3: the entries the task has received are, in order, the first changes the
\* watcher handed to the channel; the entries still queued (and the one being
\* sent) are the following ones; and the events emitted are, in order, the
\* first entries received: a prefix of the accepted changes, nothing reordered
\* or repeated.
C3_OrderKept ==
    /\ IsPrefix(received, accepted)
    /\ IsPrefix(events, received)
    /\ IsPrefix(events, accepted)
    /\ Len(received) - Len(events) <= 1
    /\ rxAlive =>
         received \o relay \o (IF pollerPc = "send" THEN <<cur>> ELSE <<>>) = accepted

\* three changes went through the channel and were emitted in order while a
\* fourth was queued
C3_Witness == events = <<X, Y, X>> /\ relay = <<EMPTY>>

(* ------------------------------ C4 .. C7 ------------------------------ *)

\* C4: under fair scheduling of the watcher and the task, the n-th change the
\* watcher accepted (and stored in last_clipboard) is eventually the n-th
\* "clipboard-update" event, for every n: no detected change is lost.
C4_NoChangeLost ==
    \A n \in 1..MaxPollSamples :
        (Len(accepted) >= n) ~> (Len(events) >= n /\ events[n] = accepted[n])

\* the writes that ended with a row inserted
InsertedUnits == {u \in DOMAIN units : units[u].res = "inserted"}

\* the rows written since the application started (a row left by an earlier
\* run has timestamp 0)
RowsOfRun == {i \in DOMAIN rows : rows[i].ts > 0}

\* C5: every entry the task has received has exactly one "clipboard-update"
\* event with its content, whatever its write did or has yet to do (only the
\* entry whose emit is the task's next statement has none yet); every entry
\* has one write, and a write inserts at most one row.
C5_OneEventPerMessage ==
    /\ Len(units) = Len(received)
    /\ \A u \in DOMAIN units : units[u].content = received[u]
    /\ workerPc # "emit" => events = received
    /\ workerPc = "emit" => events = SubSeq(received, 1, Len(received) - 1)
    /\ Cardinality(RowsOfRun) <= Cardinality(InsertedUnits)

\* the n-th change has been put on the channel
Submitted(n) == n <= Len(received) + Len(relay)

\* C6: with the spawned writes never completing, every entry put on the channel
\* is eventually received and emitted, and a watcher blocked in a send on a
\* full channel eventually leaves the send.
C6_NeverStallsOnStorage ==
    /\ \A n \in 1..MaxBurst : Submitted(n) ~> (Len(events) >= n)
    /\ (pollerPc = "send" /\ Len(relay) = Capacity) ~> (pollerPc # "send")

\* C7: a tick whose read fails leaves last_clipboard, the channel and the
\* histories of changes and events as they were and the watcher at its next
\* tick, with the task undisturbed; and the first successful read after failed
\* ones is a change exactly when it differs from the content seen last before
\* them.
C7_FailedReadSkips ==
    [][/\ (readFailed' /\ ~readFailed =>
             /\ last' = last
             /\ relay' = relay
             /\ rxAlive' = rxAlive
             /\ samples' = samples
             /\ accepted' = accepted
             /\ events' = events
             /\ pollerPc = "tick" /\ pollerPc' = "tick"
             /\ workerPc' = workerPc)
       /\ (readFailed /\ samples' # samples =>
             /\ last = LastOf(accepted, EMPTY)
             /\ (accepted' # accepted) = (LastOf(samples', EMPTY) # last)
             /\ last' = LastOf(samples', EMPTY))]_vars

\* a read failed after x had been seen, and the next read, x again, was no change
C7_Witness == readFailed /\ last = X /\ samples = <<X>> /\ accepted = <<X>>

(* ------------------------------ C8 .. C10 ----------------------------- *)

ContentsOf(rs) == [i \in DOMAIN rs |-> rs[i].content]

TypesOf(rs) == [i \in DOMAIN rs |-> rs[i].ctype]

AllWritesDone == \A u \in DOMAIN units : units[u].pc = "done"

\* C8: scenario A.  From an empty table, after the reads [x,x,y] the channel
\* was given exactly [x,y]; and once both writes have completed with their
\* rows inserted (no storage error, no delete command), the table holds two
\* rows, y newer than x and x inserted before y, both of type "text".
C8_ScenarioA ==
    (samples = <<X, X, Y>> /\ pollerPc = "tick" /\ seqno = Cardinality(InsertedUnits)) =>
        /\ accepted = <<X, Y>>
        /\ (Len(units) = 2 /\ AllWritesDone /\ Cardinality(InsertedUnits) = 2
            /\ Len(rows) = 2) =>
              /\ ContentsOf(ByRecency(rows)) = <<Y, X>>
              /\ ContentsOf(rows) = <<X, Y>>
              /\ TypesOf(rows) = <<"text", "text">>

\* the row an earlier run left (timestamp 0) is still in the table
SeedRow == CHOOSE r \in RowSet(rows) : r.ts = 0

SeedPresent == \E r \in RowSet(rows) : r.ts = 0

\* C9: scenario B.  The table's row from before the restart holds a content,
\* and the first change after the restart is that content again (last_clipboard
\* starts empty, so the watcher lets it through).  Its write, once it has
\* returned, has inserted nothing: the table still holds exactly the one row.
C9_AtRestDedup ==
    (SeedPresent /\ Len(accepted) = 1 /\ accepted[1] = SeedRow.content
       /\ Len(units) = 1 /\ units[1].pc = "done") =>
        /\ units[1].res \in {"skipped", "failed"}
        /\ rows = <<SeedRow>>
        /\ SeedRow.ctype = "json"

\* the write of the repeated content found the row and skipped its insert
C9_Witness ==
    /\ SeedPresent
    /\ accepted = <<J>>
    /\ Len(units) = 1
    /\ units[1].res = "skipped"
    /\ rows = <<Row(1, J, 0, "json")>>

\* no two rows adjacent in descending-timestamp order have the same content
NoAdjacentDuplicate(rs) ==
    LET o == ByRecency(rs)
    IN \A i \in 1..(Len(o) - 1) : o[i].content # o[i + 1].content

\* C10 as claimed: under sequential persistence, after any sequence of inserts
\* and delete commands no two adjacent rows have the same content.
C10_NoAdjacentDuplicates == NoAdjacentDuplicate(rows)

\* C10 as amended: under sequential persistence no two adjacent rows have the
\* same content, as long as no delete by id has removed a row lying between
\* two rows of the same content.
C10_NoAdjacentDuplicatesUnlessJoined == ~joined => NoAdjacentDuplicate(rows)

\* three writes have inserted after the row of the earlier run, one content
\* occurring twice, and a delete by id has removed a row without joining equals
C10_Witness ==
    /\ ~joined
    /\ seqno = 4
    /\ Len(rows) = 3
    /\ \E i, j \in DOMAIN rows : i # j /\ rows[i].content = rows[j].content

(* ----------------------------- C11 .. C14 ----------------------------- *)

\* C11: in every state last_clipboard holds the content of the latest
\* successful clipboard read, or the empty string when there has been none,
\* whatever became of the send, the write or the emit of that content.
C11_LastIsLatestRead == last = LastOf(samples, EMPTY)

\* x was read and received, its emit failed and its write failed; y was read
\* next and its send found the receiver gone: last_clipboard holds y
C11_Witness ==
    /\ samples = <<X, Y>>
    /\ last = Y
    /\ pollerPc = "tick"
    /\ workerPc = "dead"
    /\ events = <<>>
    /\ Len(units) = 1
    /\ units[1].res = "failed"

\* C12: while the watcher's loop runs the task's loop runs too: no failed
\* read, write or emit ends it.
C12_LoopsKeepRunning ==
    pollerPc \in {"tick", "send"} => workerPc \in {"recv", "emit"}

\* content with leading whitespace trimmed starts with "{" or "["
RuleJson(c) ==
    \E k \in 1..Len(c) :
        /\ c[k] \in {"{", "["}
        /\ \A j \in 1..(k - 1) : c[j] \in WhiteSpace

\* content starts with "http://" or "https://"
RuleUrl(c) ==
    \E p \in {HttpPrefix, HttpsPrefix} :
        /\ Len(c) >= Len(p)
        /\ \A i \in 1..Len(p) : c[i] = p[i]

\* content has more than one line: a line break with something after it
RuleMultiline(c) == \E i \in 1..(Len(c) - 1) : c[i] = "\n"

\* the tag of the first rule that matches, in the order json, url, multiline
TagByRules(c) ==
    CASE RuleJson(c) -> "json"
      [] ~RuleJson(c) /\ RuleUrl(c) -> "url"
      [] ~RuleJson(c) /\ ~RuleUrl(c) /\ RuleMultiline(c) -> "multiline"
      [] OTHER -> "text"

\* C13: the content type computed for a content is the tag of the first
\* matching rule in the order json, url, multiline, text, for every content
\* the pipeline holds, and every row carries the tag of its content.
C13_ClassifiedByPriority ==
    /\ \A c \in {last, cur, msg} \cup {units[u].content : u \in DOMAIN units} :
          Classify(c) = TagByRules(c)
    /\ \A i \in DOMAIN rows : rows[i].ctype = TagByRules(rows[i].content)

\* two rows whose contents match two rules each: "{", line break, "}" is
\* stored as json and a two-line content starting with "https://" as url
C13_Witness ==
    \E i, j \in DOMAIN rows :
        /\ rows[i].content = JsonLines /\ rows[i].ctype = "json"
        /\ rows[j].content = UrlLines /\ rows[j].ctype = "url"

Ids(rs) == {rs[i].id : i \in DOMAIN rs}

\* C14: with the database available, a delete by an id the table does not
\* hold reports success and leaves the table as it is, a clear of the empty
\* table reports success and leaves it empty, and a second delete by the same
\* id, or a second clear, reports success and changes nothing more.
C14_DeletesIdempotent ==
    /\ \A id \in 1..(seqno + 1) :
          LET once == DeleteClipboardEntry(rows, id, TRUE)
          IN /\ once.success
             /\ id \notin Ids(rows) => once.rows = rows
             /\ DeleteClipboardEntry(once.rows, id, TRUE) = once
    /\ LET once == ClearAllClipboardEntries(rows, TRUE)
       IN /\ once.success
          /\ rows = <<>> => once.rows = <<>>
          /\ ClearAllClipboardEntries(once.rows, TRUE) = once

\* a delete by id has removed a row and left others: that id is now absent
C14_Witness ==
    /\ Running
    /\ rows # <<>>
    /\ \E id \in 1..seqno : id \notin Ids(rows)

(* ----------------------------- C15 .. C16 ----------------------------- *)

\* list holds min(n, rows of the table) distinct rows of the table, in
\* descending order of timestamp, and no row left out is newer than one in it
IsRecent(list, rs, n) ==
    /\ Len(list) = (IF n < Len(rs) THEN n ELSE Len(rs))
    /\ \A i \in DOMAIN list : list[i] \in RowSet(rs)
    /\ \A i, j \in DOMAIN list : i < j => list[i].id # list[j].id /\ list[i].ts >= list[j].ts
    /\ \A i \in DOMAIN list :
          \A r \in RowSet(rs) \ {list[k] : k \in DOMAIN list} : r.ts <= list[i].ts

\* C15: a history command that finds the database leaves the table as it is
\* and returns min(n, rows of the table) rows, those with the greatest
\* timestamps, in descending order of timestamp, where n is the limit given
\* or 20 when none is given.
C15_ListRecent ==
    [][reply' # reply =>
         /\ rows' = rows
         /\ reply'.ok =>
               IsRecent(reply'.entries, rows,
                        IF reply'.limit = NoLimit THEN 20 ELSE reply'.limit[1])]_vars

\* a history command without a limit on a table of more than 20 rows returned 20
C15_Witness ==
    /\ reply.ok
    /\ reply.limit = NoLimit
    /\ Len(rows) > 20
    /\ Len(reply.entries) = 20

\* C16 as claimed: once setup has returned, the "clipboard-history" events
\* emitted are exactly the 20 most recent rows, one event per row, most recent
\* first; before that there is none, and no "clipboard-update" event either.
C16_HistoryOnceAtStartup ==
    /\ pollerPc = "boot" => history = <<>> /\ events = <<>>
    /\ Running => IsRecent(history, rows, 20)

\* list holds distinct rows of the table, each among its n newest, in
\* descending order of timestamp
AmongRecent(list, rs, n) ==
    /\ \A i \in DOMAIN list :
          /\ list[i] \in RowSet(rs)
          /\ Cardinality({r \in RowSet(rs) : r.ts > list[i].ts}) < n
    /\ \A i, j \in DOMAIN list : i < j => list[i].id # list[j].id /\ list[i].ts >= list[j].ts

\* C16 as amended: "clipboard-history" events are emitted only by setup, before
\* the watcher and the task exist and so before any "clipboard-update" event,
\* and never afterwards; they are events for rows among the 20 most recent,
\* most recent first and each row at most once, and one per such row when
\* the history read and every emit returned Ok (a failed read leaves them all
\* out, a failed emit its row).
C16_HistoryAtStartupOnly ==
    [][/\ pollerPc = "boot" => history = <<>> /\ events = <<>> /\ samples = <<>>
       /\ pollerPc # "boot" => history' = history
       /\ Running' =>
             /\ AmongRecent(history', rows', 20)
             /\ historyFaults' = 0 => IsRecent(history', rows', 20)]_vars

\* setup found more than 20 rows and emitted 20 events without an error, and
\* the task has since emitted a "clipboard-update"
C16_Witness ==
    /\ Running
    /\ Len(rows) > 20
    /\ Len(history) = 20
    /\ historyFaults = 0
    /\ events # <<>>

(* ----------------------------- C17 .. C20 ----------------------------- *)

\* C17: the ids of the rows in the table are distinct, increase in insertion
\* order and never exceed the largest id assigned so far (seqno), which never
\* decreases; a row that enters the table gets an id greater than it, hence
\* greater than every id assigned before, those of deleted rows included.
C17_IdsNeverReused ==
    [][/\ seqno' >= seqno
       /\ \A i \in DOMAIN rows : rows[i].id <= seqno
       /\ \A i, j \in DOMAIN rows' : i < j => rows'[i].id < rows'[j].id
       /\ \A i \in DOMAIN rows' :
             rows'[i] \notin RowSet(rows) => rows'[i].id > seqno /\ rows'[i].id = seqno']_vars

\* the rows with ids 1 and 2 were deleted and the next insert got id 3
C17_Witness ==
    /\ seqno = 3
    /\ Len(rows) = 1
    /\ rows[1].id = 3

\* C18: the watcher does not hold the last_clipboard mutex while it is in
\* tx.send.
C18_SendOutsideLock == pollerPc = "send" => ~lockHeld

\* C19: two adjacent rows of equal content are rows of this run, inserted by
\* two different writes of that content, each of which passed the duplicate
\* check; every row of the run belongs to one write that inserted.
C19_TwoWritesPerDuplicate ==
    /\ Cardinality(RowsOfRun) = Cardinality(InsertedUnits)
    /\ LET o == ByRecency(rows)
       IN \A i \in 1..(Len(o) - 1) :
             o[i].content = o[i + 1].content =>
                /\ o[i].ts > 0 /\ o[i + 1].ts > 0
                /\ Cardinality({u \in InsertedUnits : units[u].content = o[i].content}) >= 2

\* the entries x, y, x were received in this order; the writes of the two x
\* both passed the duplicate check and both inserted, while the write of y,
\* spawned between them, has not started: the table holds x twice in a row
C19_Witness ==
    /\ received = <<X, Y, X>>
    /\ units[1].res = "inserted"
    /\ units[2].pc = "start"
    /\ units[3].res = "inserted"
    /\ ContentsOf(ByRecency(rows)) = <<X, X>>

NoRepeat(s) == \A i \in 1..(Len(s) - 1) : s[i] # s[i + 1]

\* C20: the contents the watcher handed to tx.send, in order, have no two
\* consecutive equal ones and do not start with the empty string; so neither
\* the queued entries nor the received ones nor the "clipboard-update" events
\* have two consecutive equal ones.
C20_NoRepeatedMessage ==
    /\ NoRepeat(accepted)
    /\ accepted # <<>> => accepted[1] # EMPTY
    /\ NoRepeat(relay)
    /\ NoRepeat(received)
    /\ NoRepeat(events)

\* the reads [x, x, "", "", x, x] gave the events [x, "", x]
C20_Witness ==
    /\ samples = <<X, X, EMPTY, EMPTY, X, X>>
    /\ events = <<X, EMPTY, X>>

====
